---- MODULE Spec2Model ----
(***************************************************************************)
(* Model of the COM2042 labs: the Lab01 echo view (hello_world) and the    *)
(* MyProjectManagement data model (Project, Board, Label, List, Task) with *)
(* its validators, slug derivation, uniqueness constraints and cascades.   *)
(* Strings are sequences of one-character tokens; a character outside      *)
(* ASCII is written as its code point ("U+00E9").                          *)
(***************************************************************************)
EXTENDS Integers, Sequences, FiniteSets, TLC

VARIABLES
    request,      \* the HttpRequest handed to hello_world
    response,     \* the HttpResponse it returned, or NoResponse
    color_value,  \* a candidate value of Label.color
    color_errors, \* Some(the ValidationError codes of cleaning it), or None
    slug_title,   \* a title handed to slugify
    slug_out,     \* <<slugify(title), slugify(slugify(title))>>, or <<>> before the call
    projects,     \* table Project: pk -> [title, slug]
    boards,       \* table Board:   pk -> [project, title]
    labels,       \* table Label:   pk -> [project, title, color]
    lists,        \* table List:    pk -> [board, title, position]
    tasks,        \* table Task:    task_no -> [list, title, priority, story_points]
    task_labels,  \* the many-to-many table of Task.labels: set of <<task_no, label pk>>
    next_pk,      \* the AutoField counter of each table
    last,         \* the last ORM call: its name, the row's key, the outcome, the rows deleted
    pc,           \* per concurrent creator: where it stands
    inst          \* per concurrent creator: the model instance it saves

echoVars  == <<request, response>>
colorVars == <<color_value, color_errors>>
slugVars  == <<slug_title, slug_out>>
dbVars    == <<projects, boards, labels, lists, tasks, task_labels, next_pk, last>>
concVars  == <<pc, inst>>
vars      == <<echoVars, colorVars, slugVars, dbVars, concVars>>

\* Optional values: None, or Some(v)
None    == <<>>
Some(v) == <<v>>

(***************************************************************************)
(* Strings                                                                 *)
(***************************************************************************)
StringsUpTo(alphabet, n) == UNION {[1..k -> alphabet] : k \in 0..n}

LowerSeq == <<"a", "b", "c", "d", "e", "f", "g", "h", "i", "j", "k", "l", "m",
             "n", "o", "p", "q", "r", "s", "t", "u", "v", "w", "x", "y", "z">>
UpperSeq == <<"A", "B", "C", "D", "E", "F", "G", "H", "I", "J", "K", "L", "M",
             "N", "O", "P", "Q", "R", "S", "T", "U", "V", "W", "X", "Y", "Z">>
Lowercase == {LowerSeq[i] : i \in DOMAIN LowerSeq}
Uppercase == {UpperSeq[i] : i \in DOMAIN UpperSeq}
Digits    == {"0", "1", "2", "3", "4", "5", "6", "7", "8", "9"}
NL        == "\n"
Whitespace == {" ", NL}

(***************************************************************************)
(* Lab01: hello_world                                                      *)
(***************************************************************************)
MaxMsgLen == 2
MsgChars  == {"H", "i", "B"}
Messages  == StringsUpTo(MsgChars, MaxMsgLen)

HEADER_NAME == "MY-APPLICATION-MESSAGE"
GET_NAME    == "message"
HelloWorld  == <<"H", "e", "l", "l", "o", " ", "w", "o", "r", "l", "d", "!">>

\* dict.get(key): the value, or None when the key is absent
DictGet(d, key) == IF key \in DOMAIN d THEN Some(d[key]) ELSE None

\* dict.get(key, default)
DictGetDefault(d, key, default) == IF key \in DOMAIN d THEN d[key] ELSE default

\* Python truth of an optional string: None and "" are false
Truthy(v) == v # None /\ v[1] # <<>>

NoResponse == [status |-> 0, content |-> <<>>]

Headers == {<<>>} \cup {(HEADER_NAME :> m) : m \in Messages}
Queries == {<<>>} \cup {(GET_NAME :> m) : m \in Messages}
Requests == [headers : Headers, GET : Queries]

\* mutant: the header wins whenever it is present, even when empty
hello_world_message_present(req) ==
    LET header_message == DictGet(req.headers, HEADER_NAME)
    IN  IF header_message # None
        THEN header_message[1]
        ELSE DictGetDefault(req.GET, GET_NAME, HelloWorld)

\* views.py hello_world: the message it answers with
hello_world_message(req) ==
    LET header_message == DictGet(req.headers, HEADER_NAME)
    IN  IF Truthy(header_message)
        THEN header_message[1]
        ELSE DictGetDefault(req.GET, GET_NAME, HelloWorld)

HttpResponse(content) == [status |-> 200, content |-> content]

hello_world ==
    /\ response = NoResponse
    /\ response' = HttpResponse(hello_world_message(request))
    /\ UNCHANGED <<request, colorVars, slugVars, dbVars, concVars>>

\* the next request arrives
NextRequest ==
    /\ response # NoResponse
    /\ request' \in Requests
    /\ response' = NoResponse
    /\ UNCHANGED <<colorVars, slugVars, dbVars, concVars>>

(***************************************************************************)
(* Label.color: CharField(max_length=7, validators=[RegexValidator])       *)
(***************************************************************************)
HexDigits == {"A", "B", "C", "D", "E", "F", "a", "b", "c", "d", "e", "f"} \cup Digits

ColorMaxLength == 7
HexLen         == 6

\* re.search('^#([A-Fa-f0-9]{6})$', s): "$" matches at the end of the string and
\* also just before a newline that ends the string
ColorRegexSearch(s) ==
    /\ Len(s) >= 1 + HexLen
    /\ s[1] = "#"
    /\ \A i \in 2..(1 + HexLen) : s[i] \in HexDigits
    /\ \/ Len(s) = 1 + HexLen
       \/ Len(s) = 2 + HexLen /\ s[2 + HexLen] = NL

\* RegexValidator.__call__: code "invalid" unless the regex is found
RegexValidator(s) == IF ColorRegexSearch(s) THEN {} ELSE {"invalid"}

\* MaxLengthValidator(max_length), which CharField adds to its validators
MaxLengthValidator(s) == IF Len(s) > ColorMaxLength THEN {"max_length"} ELSE {}

\* Field.empty_values, for a string
IsEmptyValue(s) == s = <<>>

\* mutant: the field without max_length, the regex alone
ColorRunValidators_regexOnly(s) ==
    IF IsEmptyValue(s) THEN {} ELSE RegexValidator(s)

\* Field.run_validators: nothing runs on an empty value; else every validator
\* runs and the errors are collected
ColorRunValidators(s) ==
    IF IsEmptyValue(s) THEN {} ELSE RegexValidator(s) \cup MaxLengthValidator(s)

\* Field.validate: blank=False rejects an empty value
ColorValidate(s) == IF IsEmptyValue(s) THEN {"blank"} ELSE {}

\* Field.clean of Label.color: validate raises first, then run_validators
ColorClean(s) == IF ColorValidate(s) # {} THEN ColorValidate(s) ELSE ColorRunValidators(s)

ColorSlack  == 1
ColorChars  == {"#", "a", "G", NL}
ColorExamples ==
    { <<"#", "A", "A", "B", "B", "C", "C">>, <<"#", "0", "0", "0", "0", "0", "0">>,
      <<"#", "f", "f", "f", "f", "f", "f">>, <<"A", "A", "B", "B", "C", "C">>,
      <<"#", "A", "B", "C">>, <<"#", "G", "G", "H", "H", "I", "I">>,
      <<"#", "A", "b", "C", "d", "9", "0", NL>>, <<"#", "A", "b", "C", "d", "9", "0", "F">> }
ColorInputs == StringsUpTo(ColorChars, ColorMaxLength + ColorSlack) \cup ColorExamples

CleanColor ==
    /\ color_errors = None
    /\ color_errors' = Some(ColorClean(color_value))
    /\ UNCHANGED <<color_value, echoVars, slugVars, dbVars, concVars>>

(***************************************************************************)
(* django.utils.text.slugify, as Project.save calls it                     *)
(***************************************************************************)
E_ACUTE   == "U+00E9"
COMBINING_ACUTE == "U+0301"
AsciiChars == Lowercase \cup Uppercase \cup Digits \cup Whitespace
                \cup {"-", "_", "!", "#", "."}

RECURSIVE Flatten(_)
Flatten(ss) == IF ss = <<>> THEN <<>> ELSE Head(ss) \o Flatten(Tail(ss))

\* unicodedata.normalize("NFKD", c)
NFKD(c) == IF c = E_ACUTE THEN <<"e", COMBINING_ACUTE>> ELSE <<c>>

\* normalize("NFKD", value).encode("ascii", "ignore").decode("ascii")
ToAscii(s) ==
    LET IsAscii(c) == c \in AsciiChars
    IN  SelectSeq(Flatten([i \in 1..Len(s) |-> NFKD(s[i])]), IsAscii)

LowerChar(c) ==
    IF c \in Uppercase
    THEN LowerSeq[CHOOSE i \in DOMAIN UpperSeq : UpperSeq[i] = c]
    ELSE c

\* str.lower
Lower(s) == [i \in 1..Len(s) |-> LowerChar(s[i])]

\* \w of an ASCII string
WordChars == Lowercase \cup Uppercase \cup Digits \cup {"_"}

\* re.sub(r"[^\w\s-]", "", s)
DropNonWord(s) ==
    LET Keep(c) == c \in WordChars \cup Whitespace \cup {"-"}
    IN  SelectSeq(s, Keep)

\* re.sub(r"[-\s]+", "-", s)
RECURSIVE CollapseRuns(_)
CollapseRuns(s) ==
    LET IsSep(c) == c \in Whitespace \cup {"-"}
    IN  IF s = <<>> THEN <<>>
        ELSE IF IsSep(Head(s))
             THEN IF Len(s) >= 2 /\ IsSep(s[2])
                  THEN CollapseRuns(Tail(s))
                  ELSE <<"-">> \o CollapseRuns(Tail(s))
             ELSE <<Head(s)>> \o CollapseRuns(Tail(s))

RECURSIVE LStrip(_, _)
LStrip(s, chars) ==
    IF s # <<>> /\ Head(s) \in chars THEN LStrip(Tail(s), chars) ELSE s

RECURSIVE RStrip(_, _)
RStrip(s, chars) ==
    IF s # <<>> /\ s[Len(s)] \in chars THEN RStrip(SubSeq(s, 1, Len(s) - 1), chars) ELSE s

\* str.strip(chars)
Strip(s, chars) == RStrip(LStrip(s, chars), chars)

\* mutant: slugify without the final strip
slugify_noStrip(value) == CollapseRuns(DropNonWord(Lower(ToAscii(value))))

\* slugify(value), allow_unicode=False
slugify(value) == Strip(CollapseRuns(DropNonWord(Lower(ToAscii(value)))), {"-", "_"})

MaxTitleLen == 3
TitleChars  == {"a", "B", "1", "-", "_", " ", "!", E_ACUTE}
Titles      == StringsUpTo(TitleChars, MaxTitleLen)

Slugify ==
    /\ slug_out = <<>>
    /\ slug_out' = <<slugify(slug_title), slugify(slugify(slug_title))>>
    /\ UNCHANGED <<slug_title, echoVars, colorVars, dbVars, concVars>>

(***************************************************************************)
(* The tables and the ORM calls                                            *)
(***************************************************************************)
OK              == "ok"
ValidationError == "ValidationError"
IntegrityError  == "IntegrityError"

\* what `last` records of an ORM call
Call(op, pk, result, deleted) ==
    [op |-> op, pk |-> pk, result |-> result, deleted |-> deleted]

NoCall == Call("", 0, "", 0)

NoPks == [project |-> 1, board |-> 1, label |-> 1, list |-> 1, task |-> 1]

\* a table without the rows of the given keys
Without(table, pks) == [k \in DOMAIN table \ pks |-> table[k]]

DbFrame == UNCHANGED <<echoVars, colorVars, slugVars, concVars>>

\* a call that raised: nothing is written
Raise(call) ==
    /\ last' = call
    /\ UNCHANGED <<projects, boards, labels, lists, tasks, task_labels, next_pk>>
    /\ DbFrame

(*********************** Project *******************************************)
\* Project.save, lines 26-27: an empty slug is derived from the title
ProjectSlugOnSave(title, slug) == IF slug = <<>> THEN slugify(title) ELSE slug

\* title = CharField(unique=True)
ProjectTitleUnique(pk, title) ==
    \A q \in DOMAIN projects \ {pk} : projects[q].title # title

\* mutant: the slug column without unique=True
ProjectSlugUnique_none(pk, slug) == TRUE

\* slug = SlugField(unique=True)
ProjectSlugUnique(pk, slug) ==
    \A q \in DOMAIN projects \ {pk} : projects[q].slug # slug

\* validate_slug of SlugField: ^[-a-zA-Z0-9_]+\Z
ValidSlug(slug) ==
    \A i \in 1..Len(slug) : slug[i] \in Lowercase \cup Uppercase \cup Digits \cup {"-", "_"}

\* Model.full_clean of a Project, on the fields as they are before save
ProjectFullClean(pk, title, slug) ==
    (IF title = <<>> THEN {"title.blank"} ELSE {})
    \cup (IF slug # <<>> /\ ~ValidSlug(slug) THEN {"slug.invalid"} ELSE {})
    \cup (IF ProjectTitleUnique(pk, title) THEN {} ELSE {"title.unique"})
    \cup (IF ProjectSlugUnique(pk, slug) THEN {} ELSE {"slug.unique"})

\* Project(title=, slug=).save(), after full_clean() when `clean`
ProjectCreate(title, slug, clean) ==
    LET pk     == next_pk.project
        errors == IF clean THEN ProjectFullClean(0, title, slug) ELSE {}
        saved  == ProjectSlugOnSave(title, slug)
        call(result) == Call("ProjectCreate", pk, result, 0)
    IN  IF errors # {} THEN Raise(call(ValidationError))
        ELSE IF ~(ProjectTitleUnique(0, title) /\ ProjectSlugUnique(0, saved))
        THEN Raise(call(IntegrityError))
        ELSE /\ projects' = projects @@ (pk :> [title |-> title, slug |-> saved])
             /\ next_pk' = [next_pk EXCEPT !.project = @ + 1]
             /\ last' = call(OK)
             /\ UNCHANGED <<boards, labels, lists, tasks, task_labels>>
             /\ DbFrame

\* p = Project.objects.get(pk=pk); p.title = title; p.save()
ProjectUpdate(pk, title, clean) ==
    /\ pk \in DOMAIN projects
    /\ LET slug   == projects[pk].slug
           errors == IF clean THEN ProjectFullClean(pk, title, slug) ELSE {}
           saved  == ProjectSlugOnSave(title, slug)
           call(result) == Call("ProjectUpdate", pk, result, 0)
       IN  IF errors # {} THEN Raise(call(ValidationError))
           ELSE IF ~(ProjectTitleUnique(pk, title) /\ ProjectSlugUnique(pk, saved))
           THEN Raise(call(IntegrityError))
           ELSE /\ projects' = [projects EXCEPT ![pk] = [title |-> title, slug |-> saved]]
                /\ last' = call(OK)
                /\ UNCHANGED <<boards, labels, lists, tasks, task_labels, next_pk>>
                /\ DbFrame

(*********************** Board, Label, List ********************************)
\* mutant: the title alone is unique, over all projects
BoardUnique_titleOnly(pk, project, title) ==
    \A b \in DOMAIN boards \ {pk} : boards[b].title # title

\* UniqueConstraint(fields=['project', 'title']) of Board
BoardUnique(pk, project, title) ==
    \A b \in DOMAIN boards \ {pk} :
        ~(boards[b].project = project /\ boards[b].title = title)

\* UniqueConstraint(fields=['project', 'title']) of Label
LabelUnique(pk, project, title) ==
    \A l \in DOMAIN labels \ {pk} :
        ~(labels[l].project = project /\ labels[l].title = title)

\* UniqueConstraint(fields=['board', 'title']) of List
ListUnique(pk, board, title) ==
    \A l \in DOMAIN lists \ {pk} :
        ~(lists[l].board = board /\ lists[l].title = title)

\* full_clean of a row with a parent and a title: the title is not blank, the
\* parent exists, the constraint holds
ChildFullClean(title, parentExists, unique) ==
    (IF title = <<>> THEN {"title.blank"} ELSE {})
    \cup (IF parentExists THEN {} ELSE {"parent.invalid"})
    \cup (IF unique THEN {} ELSE {"unique"})

\* Board(project=, title=).save()
BoardCreate(project, title, clean) ==
    LET pk     == next_pk.board
        exists == project \in DOMAIN projects
        unique == BoardUnique(0, project, title)
        errors == IF clean THEN ChildFullClean(title, exists, unique) ELSE {}
        call(result) == Call("BoardCreate", pk, result, 0)
    IN  IF errors # {} THEN Raise(call(ValidationError))
        ELSE IF ~(exists /\ unique) THEN Raise(call(IntegrityError))
        ELSE /\ boards' = boards @@ (pk :> [project |-> project, title |-> title])
             /\ next_pk' = [next_pk EXCEPT !.board = @ + 1]
             /\ last' = call(OK)
             /\ UNCHANGED <<projects, labels, lists, tasks, task_labels>>
             /\ DbFrame

\* Label(project=, title=, color=).save()
LabelCreate(project, title, color, clean) ==
    LET pk     == next_pk.label
        exists == project \in DOMAIN projects
        unique == LabelUnique(0, project, title)
        errors == IF clean
                  THEN ChildFullClean(title, exists, unique) \cup ColorClean(color)
                  ELSE {}
        call(result) == Call("LabelCreate", pk, result, 0)
    IN  IF errors # {} THEN Raise(call(ValidationError))
        ELSE IF ~(exists /\ unique) THEN Raise(call(IntegrityError))
        ELSE /\ labels' = labels @@
                    (pk :> [project |-> project, title |-> title, color |-> color])
             /\ next_pk' = [next_pk EXCEPT !.label = @ + 1]
             /\ last' = call(OK)
             /\ UNCHANGED <<projects, boards, lists, tasks, task_labels>>
             /\ DbFrame

\* List(board=, title=, position=).save(); PositiveIntegerField is checked >= 0
\* by its validator and by the column's CHECK
ListCreate(board, title, position, clean) ==
    LET pk     == next_pk.list
        exists == board \in DOMAIN boards
        unique == ListUnique(0, board, title)
        errors == IF clean
                  THEN ChildFullClean(title, exists, unique)
                       \cup (IF position < 0 THEN {"position.min_value"} ELSE {})
                  ELSE {}
        call(result) == Call("ListCreate", pk, result, 0)
    IN  IF errors # {} THEN Raise(call(ValidationError))
        ELSE IF ~(exists /\ unique /\ position >= 0) THEN Raise(call(IntegrityError))
        ELSE /\ lists' = lists @@
                    (pk :> [board |-> board, title |-> title, position |-> position])
             /\ next_pk' = [next_pk EXCEPT !.list = @ + 1]
             /\ last' = call(OK)
             /\ UNCHANGED <<projects, boards, labels, tasks, task_labels>>
             /\ DbFrame

(*********************** Task **********************************************)
StoryPointsMin == 0
StoryPointsMax == 100
Divisor        == 5

PriorityChoices == {"HI", "ME", "LO"}
PriorityDefault == "ME"
TaskTitle       == <<"t">>

\* validate_divisible_by_5, lines 7-10
validate_divisible_by_5(value) ==
    IF value % Divisor # 0 THEN {"not_divisible_by_5"} ELSE {}

MinValueValidator(value) == IF value < StoryPointsMin THEN {"min_value"} ELSE {}

MaxValueValidator(value) == IF value > StoryPointsMax THEN {"max_value"} ELSE {}

\* run_validators of Task.story_points: every validator runs, the errors are collected
StoryPointsClean(value) ==
    MinValueValidator(value) \cup MaxValueValidator(value) \cup validate_divisible_by_5(value)

\* Model.full_clean of a Task
TaskFullClean(list, priority, story_points) ==
    (IF list \in DOMAIN lists THEN {} ELSE {"list.invalid"})
    \cup (IF priority \in PriorityChoices THEN {} ELSE {"priority.invalid_choice"})
    \cup StoryPointsClean(story_points)

\* Task(list=, title=, story_points=).save(): Model.save runs no validator, and
\* the column of an IntegerField carries no CHECK
TaskCreate(list, story_points, clean) ==
    LET pk     == next_pk.task
        errors == IF clean THEN TaskFullClean(list, PriorityDefault, story_points) ELSE {}
        call(result) == Call("TaskCreate", pk, result, 0)
    IN  IF errors # {} THEN Raise(call(ValidationError))
        ELSE IF list \notin DOMAIN lists THEN Raise(call(IntegrityError))
        ELSE /\ tasks' = tasks @@
                    (pk :> [list |-> list, title |-> TaskTitle,
                            priority |-> PriorityDefault, story_points |-> story_points])
             /\ next_pk' = [next_pk EXCEPT !.task = @ + 1]
             /\ last' = call(OK)
             /\ UNCHANGED <<projects, boards, labels, lists, task_labels>>
             /\ DbFrame

\* t = Task.objects.get(pk=pk); t.story_points = story_points; t.save()
TaskUpdate(pk, story_points, clean) ==
    /\ pk \in DOMAIN tasks
    /\ LET errors == IF clean
                     THEN TaskFullClean(tasks[pk].list, tasks[pk].priority, story_points)
                     ELSE {}
           call(result) == Call("TaskUpdate", pk, result, 0)
       IN  IF errors # {} THEN Raise(call(ValidationError))
           ELSE /\ tasks' = [tasks EXCEPT ![pk].story_points = story_points]
                /\ last' = call(OK)
                /\ UNCHANGED <<projects, boards, labels, lists, task_labels, next_pk>>
                /\ DbFrame

\* task.labels.add(label): a row of the many-to-many table; adding a label the
\* task already carries writes nothing and returns normally
TaskAddLabel(pk, label) ==
    /\ pk \in DOMAIN tasks
    /\ label \in DOMAIN labels
    /\ task_labels' = task_labels \cup {<<pk, label>>}
    /\ last' = Call("TaskAddLabel", pk, OK, 0)
    /\ UNCHANGED <<projects, boards, labels, lists, tasks, next_pk>>
    /\ DbFrame

(*********************** delete ********************************************)
\* Board.project, on_delete=CASCADE
BoardsOf(P) == {b \in DOMAIN boards : boards[b].project \in P}

\* Label.project, on_delete=CASCADE
LabelsOf(P) == {l \in DOMAIN labels : labels[l].project \in P}

\* List.board, on_delete=CASCADE
ListsOf(B) == {l \in DOMAIN lists : lists[l].board \in B}

\* mutant: deleting a list leaves its tasks
TasksOf_doNothing(L) == {}

\* Task.list, on_delete=CASCADE
TasksOf(L) == {t \in DOMAIN tasks : tasks[t].list \in L}

\* mutant: deleting a label clears the label sets of the tasks that carried it
ThroughRowsOf_wholeTask(T, Lb) ==
    LET carriers == {tl[1] : tl \in {r \in task_labels : r[2] \in Lb}}
    IN  {tl \in task_labels : tl[1] \in T \cup carriers}

\* Task.labels: the rows of the many-to-many table go with either end
ThroughRowsOf(T, Lb) == {tl \in task_labels : tl[1] \in T \/ tl[2] \in Lb}

\* Model.delete: the collector follows the CASCADE relations from the rows
\* asked for and deletes everything it found; it returns how many rows went
CascadeDelete(op, pk, P, B0, Lb0, L0, T0) ==
    LET B    == B0 \cup BoardsOf(P)
        Lb   == Lb0 \cup LabelsOf(P)
        L    == L0 \cup ListsOf(B)
        T    == T0 \cup TasksOf(L)
        rows == ThroughRowsOf(T, Lb)
        n    == Cardinality(P) + Cardinality(B) + Cardinality(Lb) + Cardinality(L)
                + Cardinality(T) + Cardinality(rows)
    IN  /\ projects' = Without(projects, P)
        /\ boards' = Without(boards, B)
        /\ labels' = Without(labels, Lb)
        /\ lists' = Without(lists, L)
        /\ tasks' = Without(tasks, T)
        /\ task_labels' = task_labels \ rows
        /\ last' = Call(op, pk, OK, n)
        /\ UNCHANGED next_pk
        /\ DbFrame

ProjectDelete(pk) ==
    pk \in DOMAIN projects /\ CascadeDelete("ProjectDelete", pk, {pk}, {}, {}, {}, {})

BoardDelete(pk) ==
    pk \in DOMAIN boards /\ CascadeDelete("BoardDelete", pk, {}, {pk}, {}, {}, {})

LabelDelete(pk) ==
    pk \in DOMAIN labels /\ CascadeDelete("LabelDelete", pk, {}, {}, {pk}, {}, {})

ListDelete(pk) ==
    pk \in DOMAIN lists /\ CascadeDelete("ListDelete", pk, {}, {}, {}, {pk}, {})

TaskDelete(pk) ==
    pk \in DOMAIN tasks /\ CascadeDelete("TaskDelete", pk, {}, {}, {}, {}, {pk})

(***************************************************************************)
(* Specifications of the pure parts                                        *)
(***************************************************************************)
EchoInit ==
    /\ request \in Requests
    /\ response = NoResponse

EchoIdle == request = [headers |-> <<>>, GET |-> <<>>] /\ response = NoResponse

ColorInit == color_value \in ColorInputs /\ color_errors = None

ColorIdle == color_value = <<>> /\ color_errors = None

SlugInit == slug_title \in Titles /\ slug_out = <<>>

SlugIdle == slug_title = <<>> /\ slug_out = <<>>

EmptyDb ==
    /\ projects = <<>> /\ boards = <<>> /\ labels = <<>> /\ lists = <<>>
    /\ tasks = <<>> /\ task_labels = {} /\ next_pk = NoPks /\ last = NoCall

DbIdle == EmptyDb

ConcIdle == pc = <<>> /\ inst = <<>>

EchoNext == hello_world \/ NextRequest

ColorNext == CleanColor

SlugNext == Slugify

InitEcho == EchoInit /\ ColorIdle /\ SlugIdle /\ DbIdle /\ ConcIdle

InitColor == ColorInit /\ EchoIdle /\ SlugIdle /\ DbIdle /\ ConcIdle

InitSlug == SlugInit /\ EchoIdle /\ ColorIdle /\ DbIdle /\ ConcIdle

SpecEcho == InitEcho /\ [][EchoNext]_vars

SpecColor == InitColor /\ [][ColorNext]_vars

SpecSlug == InitSlug /\ [][SlugNext]_vars

(***************************************************************************)
(* Specifications of the data model                                        *)
(***************************************************************************)
MaxRows == 6

\* rows inserted so far, over all tables
Rows == next_pk.project + next_pk.board + next_pk.label + next_pk.list + next_pk.task - 5

\* the keys a caller may name: those of the stored rows, and one that is not stored
Pks(table, unused) == DOMAIN table \cup {unused}

PureIdle == EchoIdle /\ ColorIdle /\ SlugIdle /\ ConcIdle

\* the whole schema: two titles for projects and boards, one for labels and lists
SchemaTitles == {<<"a">>, <<"b">>}
ChildTitles  == {<<"a">>}
SchemaColor  == <<"#", "A", "A", "B", "B", "C", "C">>

Init == EmptyDb /\ PureIdle

Next ==
    \/ \E t \in SchemaTitles, c \in BOOLEAN :
          Rows < MaxRows /\ ProjectCreate(t, <<>>, c)
    \/ \E p \in Pks(projects, next_pk.project), t \in SchemaTitles, c \in BOOLEAN :
          Rows < MaxRows /\ BoardCreate(p, t, c)
    \/ \E p \in Pks(projects, next_pk.project), t \in ChildTitles, c \in BOOLEAN :
          Rows < MaxRows /\ LabelCreate(p, t, SchemaColor, c)
    \/ \E b \in Pks(boards, next_pk.board), t \in ChildTitles, c \in BOOLEAN :
          Rows < MaxRows /\ ListCreate(b, t, 0, c)
    \/ \E l \in Pks(lists, next_pk.list), c \in BOOLEAN :
          Rows < MaxRows /\ TaskCreate(l, Divisor, c)
    \/ \E t \in DOMAIN tasks, l \in DOMAIN labels : TaskAddLabel(t, l)
    \/ \E p \in DOMAIN projects : ProjectDelete(p)
    \/ \E b \in DOMAIN boards : BoardDelete(b)
    \/ \E l \in DOMAIN labels : LabelDelete(l)
    \/ \E l \in DOMAIN lists : ListDelete(l)
    \/ \E t \in DOMAIN tasks : TaskDelete(t)

Spec == Init /\ [][Next]_vars

(*********************** projects alone ************************************)
MaxProjects   == 2
ProjectTitles == {<<"a">>, <<"A">>, <<"!">>, <<"a", "_", "b">>}
ProjectSlugs  == {<<>>, <<"a">>, <<"s">>}

ProjectNext ==
    \/ \E t \in ProjectTitles, g \in ProjectSlugs, c \in BOOLEAN :
          next_pk.project <= MaxProjects /\ ProjectCreate(t, g, c)
    \/ \E p \in DOMAIN projects, t \in ProjectTitles, c \in BOOLEAN : ProjectUpdate(p, t, c)
    \/ \E p \in DOMAIN projects : ProjectDelete(p)

SpecProject == Init /\ [][ProjectNext]_vars

(*********************** tasks of one list *********************************)
MaxTasks         == 2
StoryPointInputs == {-5, 0, 5, 7, 100, 105}

\* one project with one board and one list
OneListDb ==
    /\ projects = (1 :> [title |-> <<"a">>, slug |-> <<"a">>])
    /\ boards = (1 :> [project |-> 1, title |-> <<"a">>])
    /\ lists = (1 :> [board |-> 1, title |-> <<"a">>, position |-> 0])
    /\ labels = <<>> /\ tasks = <<>> /\ task_labels = {}
    /\ next_pk = [project |-> 2, board |-> 2, label |-> 1, list |-> 2, task |-> 1]
    /\ last = NoCall

InitTask == OneListDb /\ PureIdle

TaskNext ==
    \/ \E l \in Pks(lists, next_pk.list), v \in StoryPointInputs, c \in BOOLEAN :
          next_pk.task <= MaxTasks /\ TaskCreate(l, v, c)
    \/ \E t \in DOMAIN tasks, v \in StoryPointInputs, c \in BOOLEAN : TaskUpdate(t, v, c)
    \/ \E t \in DOMAIN tasks : TaskDelete(t)

SpecTask == InitTask /\ [][TaskNext]_vars

(*********************** labels on the tasks of one list *******************)
MaxLabels   == 2
LabelTitles == {<<"a">>, <<"b">>}

LabelNext ==
    \/ \E p \in Pks(projects, next_pk.project), t \in LabelTitles, c \in BOOLEAN :
          next_pk.label <= MaxLabels /\ LabelCreate(p, t, SchemaColor, c)
    \/ \E l \in Pks(lists, next_pk.list), c \in BOOLEAN :
          next_pk.task <= MaxTasks /\ TaskCreate(l, Divisor, c)
    \/ \E t \in DOMAIN tasks, l \in DOMAIN labels : TaskAddLabel(t, l)
    \/ \E l \in DOMAIN labels : LabelDelete(l)
    \/ \E t \in DOMAIN tasks : TaskDelete(t)

SpecLabel == InitTask /\ [][LabelNext]_vars

(*********************** two creations at once *****************************)
Procs == {1, 2}

Terminal == {"saved", IntegrityError, ValidationError}

ConcTitles == {<<"a">>, <<"A">>, <<"!">>}
ConcSlugs  == {<<>>, <<"a">>}

Instances ==
    [kind : {"Project"}, parent : {0}, title : ConcTitles, slug : ConcSlugs,
     cleaned : {FALSE}]
    \cup [kind : {"Board", "Label", "List"}, parent : {1, 2}, title : ChildTitles,
          slug : {<<>>}, cleaned : {FALSE}]

\* two projects with a board each, none of them in the way of the creations
TwoBoardsDb ==
    /\ projects = <<[title |-> <<"x">>, slug |-> <<"x">>],
                    [title |-> <<"y">>, slug |-> <<"y">>]>>
    /\ boards = <<[project |-> 1, title |-> <<"x">>], [project |-> 2, title |-> <<"x">>]>>
    /\ labels = <<>> /\ lists = <<>> /\ tasks = <<>> /\ task_labels = {}
    /\ next_pk = [project |-> 3, board |-> 3, label |-> 1, list |-> 1, task |-> 1]
    /\ last = NoCall

\* whether the tables accept the row of instance i, with its fields as given
UniqueInTables(i) ==
    CASE i.kind = "Project" ->
             ProjectTitleUnique(0, i.title) /\ ProjectSlugUnique(0, i.slug)
      [] i.kind = "Board" -> BoardUnique(0, i.parent, i.title)
      [] i.kind = "Label" -> LabelUnique(0, i.parent, i.title)
      [] i.kind = "List"  -> ListUnique(0, i.parent, i.title)

\* whether the parent row of a Board, Label or List is stored
ParentExists(i) ==
    IF i.kind = "List" THEN i.parent \in DOMAIN boards ELSE i.parent \in DOMAIN projects

\* the first SELECT of full_clean: validate_unique looks up the title of a
\* Project; clean_fields looks up the parent of a Board, Label or List
FirstReadOk(i) ==
    IF i.kind = "Project" THEN ProjectTitleUnique(0, i.title) ELSE ParentExists(i)

\* the second SELECT of full_clean: validate_unique looks up the slug of a
\* Project; validate_constraints looks up the (parent, title) pair of the others
SecondReadOk(i) ==
    CASE i.kind = "Project" -> ProjectSlugUnique(0, i.slug)
      [] i.kind = "Board" -> BoardUnique(0, i.parent, i.title)
      [] i.kind = "Label" -> LabelUnique(0, i.parent, i.title)
      [] i.kind = "List"  -> ListUnique(0, i.parent, i.title)

\* instance.full_clean() up to its first SELECT.  The errors are collected: a
\* Project goes on to the second lookup whatever the first found; a constraint
\* over a field that failed clean_fields is skipped, so a child whose parent is
\* missing has nothing more to read.
FullCleanFirstRead(self) ==
    /\ pc[self] = "new"
    /\ pc' = [pc EXCEPT ![self] =
                 IF FirstReadOk(inst[self]) THEN "read_ok"
                 ELSE IF inst[self].kind = "Project" THEN "read_error"
                 ELSE ValidationError]
    /\ UNCHANGED <<inst, echoVars, colorVars, slugVars, dbVars>>

\* instance.full_clean() from its second SELECT to its end; no lock is held
\* since the first one, so the tables are read as they are now
FullCleanSecondRead(self) ==
    /\ pc[self] \in {"read_ok", "read_error"}
    /\ IF pc[self] = "read_ok" /\ SecondReadOk(inst[self])
       THEN /\ pc' = [pc EXCEPT ![self] = "cleaned"]
            /\ inst' = [inst EXCEPT ![self].cleaned = TRUE]
       ELSE /\ pc' = [pc EXCEPT ![self] = ValidationError]
            /\ UNCHANGED inst
    /\ UNCHANGED <<echoVars, colorVars, slugVars, dbVars>>

\* instance.save(): Project.save derives the slug, then the INSERT is checked
\* against the table's constraints as it is written
Save(self) ==
    /\ pc[self] \in {"new", "cleaned"}
    /\ LET i   == inst[self]
           row == IF i.kind = "Project"
                  THEN [i EXCEPT !.slug = ProjectSlugOnSave(i.title, i.slug)]
                  ELSE i
       IN  /\ inst' = [inst EXCEPT ![self] = row]
           /\ IF ~UniqueInTables(row)
              THEN /\ pc' = [pc EXCEPT ![self] = IntegrityError]
                   /\ UNCHANGED <<projects, boards, labels, lists, next_pk>>
              ELSE /\ pc' = [pc EXCEPT ![self] = "saved"]
                   /\ projects' = IF row.kind = "Project"
                                  THEN projects @@ (next_pk.project :>
                                           [title |-> row.title, slug |-> row.slug])
                                  ELSE projects
                   /\ boards' = IF row.kind = "Board"
                                THEN boards @@ (next_pk.board :>
                                         [project |-> row.parent, title |-> row.title])
                                ELSE boards
                   /\ labels' = IF row.kind = "Label"
                                THEN labels @@ (next_pk.label :>
                                         [project |-> row.parent, title |-> row.title,
                                          color |-> SchemaColor])
                                ELSE labels
                   /\ lists' = IF row.kind = "List"
                               THEN lists @@ (next_pk.list :>
                                        [board |-> row.parent, title |-> row.title,
                                         position |-> 0])
                               ELSE lists
                   /\ next_pk' =
                        CASE row.kind = "Project" -> [next_pk EXCEPT !.project = @ + 1]
                          [] row.kind = "Board" -> [next_pk EXCEPT !.board = @ + 1]
                          [] row.kind = "Label" -> [next_pk EXCEPT !.label = @ + 1]
                          [] row.kind = "List"  -> [next_pk EXCEPT !.list = @ + 1]
    /\ UNCHANGED <<tasks, task_labels, last, echoVars, colorVars, slugVars>>

InitConc ==
    /\ TwoBoardsDb /\ EchoIdle /\ ColorIdle /\ SlugIdle
    /\ pc = [self \in Procs |-> "new"]
    /\ inst \in [Procs -> Instances]

ConcNext ==
    \E self \in Procs :
        FullCleanFirstRead(self) \/ FullCleanSecondRead(self) \/ Save(self)

SpecConc == InitConc /\ [][ConcNext]_vars

(***************************************************************************)
(* Properties of the data model                                            *)
(***************************************************************************)

\* C2: deleting a Project removes its Boards and Labels, the Lists of those
\* Boards and the Tasks of those Lists, and every row owned by another Project
\* is still stored.
C2_ProjectDeleteCascades ==
    [][ last'.op = "ProjectDelete" =>
          LET p  == last'.pk
              B  == {b \in DOMAIN boards : boards[b].project = p}
              Lb == {l \in DOMAIN labels : labels[l].project = p}
              L  == {l \in DOMAIN lists : lists[l].board \in B}
              T  == {t \in DOMAIN tasks : tasks[t].list \in L}
          IN  /\ p \in DOMAIN projects
              /\ DOMAIN projects' = DOMAIN projects \ {p}
              /\ DOMAIN boards' = DOMAIN boards \ B
              /\ DOMAIN labels' = DOMAIN labels \ Lb
              /\ DOMAIN lists' = DOMAIN lists \ L
              /\ DOMAIN tasks' = DOMAIN tasks \ T
      ]_vars

\* C2 witness: a Project was deleted together with at least a Board, a List and a
\* Task of its own, and a Board of another Project is still stored.
C2_CascadeReachedTask ==
    /\ last.op = "ProjectDelete"
    /\ last.deleted >= 4
    /\ next_pk.task > 1 /\ tasks = <<>>
    /\ \E b \in DOMAIN boards : boards[b].project \in DOMAIN projects

NoDuplicateBoards ==
    \A b1, b2 \in DOMAIN boards :
        (boards[b1].project = boards[b2].project /\ boards[b1].title = boards[b2].title)
            => b1 = b2

\* C3: creating a Board whose (project, title) is already stored fails with a
\* uniqueness error and leaves the Boards as they were; with the same title under
\* another stored Project it succeeds; no two Boards of a Project share a title.
C3_BoardTitleUniquePerProject ==
    [][ /\ \A p \in Pks(projects, next_pk.project), t \in SchemaTitles, c \in BOOLEAN :
              BoardCreate(p, t, c) =>
                  LET taken == \E b \in DOMAIN boards :
                                  boards[b].project = p /\ boards[b].title = t
                  IN  /\ taken => /\ last'.result \in {ValidationError, IntegrityError}
                                  /\ boards' = boards
                      /\ (~taken /\ p \in DOMAIN projects) =>
                              /\ last'.result = OK
                              /\ \E b \in DOMAIN boards' \ DOMAIN boards :
                                    boards'[b] = [project |-> p, title |-> t]
        /\ NoDuplicateBoards'
      ]_vars

\* C3 witness: two Boards of different Projects share a title, and a further
\* creation was refused by the constraint.
C3_SameTitleTwoProjects ==
    /\ last.op = "BoardCreate"
    /\ last.result = IntegrityError
    /\ \E b1, b2 \in DOMAIN boards :
          boards[b1].title = boards[b2].title /\ boards[b1].project # boards[b2].project

LabelsOfTask(t) == {tl[2] : tl \in {r \in task_labels : r[1] = t}}

\* C8: deleting a Label deletes no Task and changes no field of one; each Task's
\* label set is its previous label set minus the deleted Label.
C8_LabelDeleteKeepsTasks ==
    [][ last'.op = "LabelDelete" =>
          /\ last'.pk \in DOMAIN labels
          /\ last'.pk \notin DOMAIN labels'
          /\ tasks' = tasks
          /\ \A t \in DOMAIN tasks : LabelsOfTask(t)' = LabelsOfTask(t) \ {last'.pk}
      ]_vars

\* C8 witness: a Label carried by two Tasks was deleted while a second Label was
\* stored; one Task keeps the second Label and the other is left with no label.
C8_OtherLabelKept ==
    /\ last.op = "LabelDelete"
    /\ last.deleted = 3
    /\ \E t1, t2 \in DOMAIN tasks :
          /\ LabelsOfTask(t1) # {}
          /\ LabelsOfTask(t1) \subseteq DOMAIN labels
          /\ LabelsOfTask(t2) = {}

\* C4: every stored Task has story_points in {0, 5, ..., 100}: a creation or
\* update with any other value stores nothing.
C4_StoredStoryPointsValid ==
    \A t \in DOMAIN tasks :
        /\ 0 <= tasks[t].story_points
        /\ tasks[t].story_points <= 100
        /\ tasks[t].story_points % 5 = 0

\* C5: once a Project is stored, no later change of title and save changes its slug.
C5_SlugNeverRecomputed ==
    [][ \A p \in DOMAIN projects \cap DOMAIN projects' :
            projects'[p].slug = projects[p].slug ]_vars

\* C6: every stored Project has a non-empty slug, and no two stored Projects share
\* a slug or a title.
C6_SlugNonEmptyAndUnique ==
    /\ \A p \in DOMAIN projects : projects[p].slug # <<>>
    /\ \A p, q \in DOMAIN projects :
          p # q => /\ projects[p].slug # projects[q].slug
                   /\ projects[p].title # projects[q].title

\* C7: of two creations whose unique keys collide, run at once, exactly one is
\* saved and the other fails with a constraint violation, in every interleaving.
C7_ExactlyOneOfCollidingCreates ==
    LET a == inst[1]
        b == inst[2]
        slugOf(i) == IF i.slug = <<>> THEN slugify(i.title) ELSE i.slug
        collide ==
            /\ a.kind = b.kind
            /\ IF a.kind = "Project"
               THEN a.title = b.title \/ slugOf(a) = slugOf(b)
               ELSE a.parent = b.parent /\ a.title = b.title
        rows == Cardinality(DOMAIN projects) + Cardinality(DOMAIN boards)
                + Cardinality(DOMAIN labels) + Cardinality(DOMAIN lists)
    IN  (pc[1] \in Terminal /\ pc[2] \in Terminal /\ collide) =>
            /\ \E self \in Procs :
                  /\ pc[self] = "saved"
                  /\ pc[3 - self] \in {IntegrityError, ValidationError}
            /\ rows = 5

\* C7 witness: two Projects of different titles and the same derived slug both
\* passed full_clean; one was saved and the INSERT of the other was refused.
C7_RaceCaughtByConstraint ==
    /\ inst[1].kind = "Project" /\ inst[2].kind = "Project"
    /\ inst[1].title # inst[2].title
    /\ inst[1].slug = inst[2].slug
    /\ inst[1].cleaned /\ inst[2].cleaned
    /\ pc[1] = "saved"
    /\ pc[2] = IntegrityError

(***************************************************************************)
(* Properties of the pure parts                                            *)
(***************************************************************************)

\* C1: hello_world answers 200 with the header MY-APPLICATION-MESSAGE when it is
\* present and non-empty, else with the query parameter "message" when it is
\* present, else with "Hello world!".
C1_EchoPrecedence ==
    response # NoResponse =>
        LET hasHeader == HEADER_NAME \in DOMAIN request.headers
            hasQuery  == GET_NAME \in DOMAIN request.GET
            expected  ==
                IF hasHeader /\ Len(request.headers[HEADER_NAME]) > 0
                THEN request.headers[HEADER_NAME]
                ELSE IF hasQuery THEN request.GET[GET_NAME] ELSE HelloWorld
        IN  response = [status |-> 200, content |-> expected]

\* C1 witness: an empty header was sent with a non-empty query parameter, and the
\* answer is the query parameter.
C1_EmptyHeaderFallsToQuery ==
    /\ response # NoResponse
    /\ HEADER_NAME \in DOMAIN request.headers
    /\ request.headers[HEADER_NAME] = <<>>
    /\ GET_NAME \in DOMAIN request.GET
    /\ request.GET[GET_NAME] # <<>>
    /\ response.content = request.GET[GET_NAME]

\* C9: cleaning Label.color reports no error exactly when the value is "#"
\* followed by six characters of [A-Fa-f0-9] and nothing else.
C9_ColorAcceptsExactlyHex ==
    color_errors # None =>
        LET s == color_value
            isHex == /\ Len(s) = 7
                     /\ s[1] = "#"
                     /\ \A i \in 2..7 : s[i] \in HexDigits
        IN  (color_errors[1] = {}) <=> isHex

\* C9 witness: a valid code followed by a newline was cleaned; the regex found a
\* match and the value was rejected for its length alone.
C9_TrailingNewlineRejected ==
    /\ color_errors = Some({"max_length"})
    /\ Len(color_value) = 8
    /\ color_value[8] = NL
    /\ \A i \in 2..7 : color_value[i] \in HexDigits

\* C10 as stated: slugify is idempotent and its result holds only characters of
\* [a-z0-9-], with no leading or trailing hyphen.
C10_SlugOnlyAlnumHyphen ==
    slug_out # <<>> =>
        LET g == slug_out[1]
        IN  /\ slug_out[2] = g
            /\ \A i \in 1..Len(g) : g[i] \in Lowercase \cup Digits \cup {"-"}
            /\ g # <<>> => g[1] # "-" /\ g[Len(g)] # "-"

\* C10 amended: slugify is idempotent and its result holds only characters of
\* [a-z0-9_-], with no leading or trailing hyphen or underscore.
C10_SlugIdempotentWordChars ==
    slug_out # <<>> =>
        LET g == slug_out[1]
        IN  /\ slug_out[2] = g
            /\ \A i \in 1..Len(g) : g[i] \in Lowercase \cup Digits \cup {"-", "_"}
            /\ g # <<>> => g[1] \notin {"-", "_"} /\ g[Len(g)] \notin {"-", "_"}

\* C10 witness: a title that slugify changed, whose slug keeps an underscore.
C10_SlugKeepsUnderscore ==
    /\ slug_out # <<>>
    /\ slug_out[1] # slug_title
    /\ \E i \in 1..Len(slug_out[1]) : slug_out[1][i] = "_"
====
